---- MODULE Spec2Model ----
(***************************************************************************)
(* GradientInfill.py: the Cura post-processing script that rewrites the    *)
(* extrusion of infill moves by their distance to the inner walls.         *)
(*                                                                         *)
(* Numbers.  Python floats are modelled by exact rationals [n, d] in       *)
(* lowest terms (unit: mm for X, Y and E).  The binary rounding error of   *)
(* float arithmetic is neglected; the decimal rounding the code asks for   *)
(* (round(x, 3), round(e, 5)) is computed.  "** 0.5" is exact on the       *)
(* squares of rationals and rounds down to a multiple of 1/d otherwise.    *)
(*                                                                         *)
(* Text.  A string is the sequence of its physical lines (what             *)
(* split("\n") returns), a physical line is the sequence of the commands   *)
(* written on it one after the other, and a command is the record of its   *)
(* fields.  A number field holds the number's value: the streams the model *)
(* reads write every number as Python prints a float, so that two texts    *)
(* are equal exactly when their records are.                               *)
(***************************************************************************)
EXTENDS Integers, Sequences, FiniteSets, TLC

(***************************** float arithmetic ****************************)

Abs(x) == IF x < 0 THEN -x ELSE x

RECURSIVE GCD(_, _)
GCD(a, b) == IF b = 0 THEN a ELSE GCD(b, a % b)

\* The rational n / d in lowest terms with a positive denominator (d # 0).
Rat(n, d) ==
    LET g == GCD(Abs(n), Abs(d))
        s == IF d < 0 THEN -1 ELSE 1
    IN  [n |-> s * (n \div g), d |-> s * (d \div g)]

Num(k) == [n |-> k, d |-> 1]

RAdd(a, b) == Rat(a.n * b.d + b.n * a.d, a.d * b.d)
RSub(a, b) == Rat(a.n * b.d - b.n * a.d, a.d * b.d)
RMul(a, b) == Rat(a.n * b.n, a.d * b.d)
\* a / b for b # 0; the callers model Python's ZeroDivisionError for b = 0.
RDiv(a, b) == Rat(a.n * b.d, a.d * b.n)
RLt(a, b) == a.n * b.d < b.n * a.d
RGe(a, b) == ~RLt(a, b)
RIsZero(a) == a.n = 0

\* int(x) for x >= 0.
RFloor(a) == a.n \div a.d

RECURSIVE ISqrtFrom(_, _)
ISqrtFrom(n, x) ==
    LET y == (x + (n \div x)) \div 2
    IN  IF y >= x THEN x ELSE ISqrtFrom(n, y)

\* The integer square root of n >= 0, rounded down.
ISqrt(n) == IF n = 0 THEN 0 ELSE ISqrtFrom(n, n)

\* a ** 0.5 for a >= 0.
RSqrt(a) == Rat(ISqrt(a.n * a.d), a.d)

\* round(a, k) with scale = 10^k: to the nearest multiple of 1/scale, a tie
\* to the even one (Python 3's round).
RRound(a, scale) ==
    LET whole == a.n \div a.d
        frac  == (a.n % a.d) * scale
        q     == whole * scale + (frac \div a.d)
        r2    == 2 * (frac % a.d)
        up    == r2 > a.d \/ (r2 = a.d /\ q % 2 = 1)
    IN  Rat(IF up THEN q + 1 ELSE q, scale)

(********************************** text ***********************************)

\* A command: its word (G0, G1, M107 or a comment) and its number fields,
\* each <<>> when the line does not carry it and <<value>> when it does.
Cmd(op, f, x, y, e) == [op |-> op, F |-> f, X |-> x, Y |-> y, E |-> e]

Marker(text) == Cmd(text, <<>>, <<>>, <<>>, <<>>)

\* The string holding the one command c, and the strings "" and "\n".
Txt(c) == << <<c>> >>
EmptyStr == << <<>> >>
NewLine == << <<>>, <<>> >>

\* s + t: the last physical line of s runs on into the first one of t.
Cat(s, t) ==
    SubSeq(s, 1, Len(s) - 1) \o << s[Len(s)] \o t[1] >> \o Tail(t)

RECURSIVE Join(_)
\* "\n".join(strs) for a non-empty list of strings.
Join(strs) ==
    IF Len(strs) = 1 THEN strs[1] ELSE strs[1] \o Join(Tail(strs))

\* list.index(x): the first position holding x (x occurs in the list).
Index(list, x) ==
    CHOOSE i \in 1..Len(list) :
        /\ list[i] = x
        /\ \A j \in 1..(i - 1) : list[j] # x

IsComment(line) == line.op \in
    {";LAYER:0", ";TYPE:WALL-INNER", ";TYPE:WALL-OUTER", ";TYPE:FILL", ";TYPE:SKIN"}

\* The substring tests of the code on a line of the model's alphabet: every
\* comment of the alphabet holds the letters "Y" and "E", ";TYPE:FILL" holds
\* an "F", and no comment holds "G1", "G0" or " X".
HasG1(line) == line.op = "G1"
HasG0(line) == line.op = "G0"
HasF(line) == Len(line.F) > 0 \/ line.op = ";TYPE:FILL"
HasSpaceX(line) == Len(line.X) > 0
HasSpaceY(line) == Len(line.Y) > 0
HasY(line) == Len(line.Y) > 0 \/ IsComment(line)
HasE(line) == Len(line.E) > 0 \/ IsComment(line)
HasSemicolon(line) == IsComment(line)

(****************************** geometry kernel ****************************)

Point2D(x, y) == [x |-> x, y |-> y]
Segment(point1, point2) == [point1 |-> point1, point2 |-> point2]

\* What a call gives: a value, or the exception it raises.
Value(v) == [err |-> "", val |-> v]
Raise(e) == [err |-> e, val |-> Num(0)]

\* Lines 62-64: norm, the square of the length of the segment.
SquaredNorm(segment) ==
    LET px == RSub(segment.point2.x, segment.point1.x)
        py == RSub(segment.point2.y, segment.point1.y)
    IN  RAdd(RMul(px, px), RMul(py, py))

\* The square of the distance to the whole line through the segment (u is
\* not brought back to 0..1): what C12's statement is tested against.
SquaredDistToLine(segment, point) ==
    LET px    == RSub(segment.point2.x, segment.point1.x)
        py    == RSub(segment.point2.y, segment.point1.y)
        cross == RSub(RMul(px, RSub(point.y, segment.point1.y)),
                      RMul(py, RSub(point.x, segment.point1.x)))
    IN  RDiv(RMul(cross, cross), RAdd(RMul(px, px), RMul(py, py)))

\* Lines 62-75: dx * dx + dy * dy, the square of what dist returns, for a
\* segment whose norm is not 0.
SquaredDist(segment, point) ==
    LET px   == RSub(segment.point2.x, segment.point1.x)
        py   == RSub(segment.point2.y, segment.point1.y)
        norm == RAdd(RMul(px, px), RMul(py, py))
        u0   == RDiv(RAdd(RMul(RSub(point.x, segment.point1.x), px),
                          RMul(RSub(point.y, segment.point1.y), py)), norm)
        u    == IF RLt(Num(1), u0) THEN Num(1)
                ELSE IF RLt(u0, Num(0)) THEN Num(0) ELSE u0
        x    == RAdd(segment.point1.x, RMul(u, px))
        y    == RAdd(segment.point1.y, RMul(u, py))
        dx   == RSub(x, point.x)
        dy   == RSub(y, point.y)
    IN  RAdd(RMul(dx, dx), RMul(dy, dy))

dist(segment, point) ==
    IF RIsZero(SquaredNorm(segment)) THEN Raise("ZeroDivisionError")
    ELSE Value(RSqrt(SquaredDist(segment, point)))

get_points_distance(point1, point2) ==
    LET ex == RSub(point1.x, point2.x)
        ey == RSub(point1.y, point2.y)
    IN  RSqrt(RAdd(RMul(ex, ex), RMul(ey, ey)))

RECURSIVE MinDist(_, _, _, _)
\* The least of best and d, the distance to segments[i], and of the others.
MinStep(segments, point, i, best, d) ==
    IF d.err # "" THEN d
    ELSE MinDist(segments, point, i + 1,
                 IF i = 1 \/ RLt(d.val, best) THEN d.val ELSE best)

\* min(dist(s, point) for s in segments[i..]), best being the least so far.
MinDist(segments, point, i, best) ==
    IF i > Len(segments) THEN Value(best)
    ELSE MinStep(segments, point, i, best, dist(segments[i], point))

min_distance_from_segment(segment, segments) ==
    LET middlePoint ==
            Point2D(RDiv(RAdd(segment.point1.x, segment.point2.x), Num(2)),
                    RDiv(RAdd(segment.point1.y, segment.point2.y), Num(2)))
    IN  IF Len(segments) = 0 THEN Raise("ValueError")
        ELSE MinDist(segments, middlePoint, 1, Num(0))

(*************************** line field extractor **************************)

\* The line carries X and Y (the callers test for them first).
getXY(currentLine) == Point2D(currentLine.X[1], currentLine.Y[1])

\* An interpolation that leaves out the division by a2 - a1: what C11's
\* statement is tested against.
mapRangeUndivided(a, b, s) == RAdd(b[1], RMul(RSub(s, a[1]), RSub(b[2], b[1])))

mapRange(a, b, s) ==
    LET a1 == a[1]
        a2 == a[2]
        b1 == b[1]
        b2 == b[2]
    IN  RAdd(b1, RDiv(RMul(RSub(s, a1), RSub(b2, b1)), RSub(a2, a1)))

get_extrusion_command(x, y, extrusion) ==
    Cmd("G1", <<>>, <<RRound(x, 1000)>>, <<RRound(y, 1000)>>,
        <<RRound(extrusion, 100000)>>)

(****************************** line classifier ****************************)

is_begin_layer_line(line) == line.op = ";LAYER:0"
is_begin_inner_wall_line(line) == line.op = ";TYPE:WALL-INNER"
is_end_inner_wall_line(line) == line.op = ";TYPE:WALL-OUTER"
is_extrusion_line(line) ==
    HasG1(line) /\ HasSpaceX(line) /\ HasY(line) /\ HasE(line)
is_begin_infill_segment_line(line) == line.op = ";TYPE:FILL"

\* A mapping that gives the cross patterns the LINEAR rewriting: what C7's
\* statement is tested against.
mfill_mode_cross_linear(Mode) ==
    IF Mode = "concentric" THEN 0 ELSE IF Mode = "gyroid" THEN 1 ELSE 2

mfill_mode(Mode) ==
    LET m0  == 0
        m1  == IF Mode = "grid" THEN 2 ELSE m0
        m2  == IF Mode = "lines" THEN 2 ELSE m1
        m3  == IF Mode = "triangles" THEN 2 ELSE m2
        m4  == IF Mode = "trihexagon" THEN 2 ELSE m3
        m5  == IF Mode = "cubic" THEN 2 ELSE m4
        m6  == IF Mode = "cubicsubdiv" THEN 2 ELSE m5
        m7  == IF Mode = "tetrahedral" THEN 2 ELSE m6
        m8  == IF Mode = "quarter_cubic" THEN 2 ELSE m7
        m9  == IF Mode = "concentric" THEN 0 ELSE m8
        m10 == IF Mode = "zigzag" THEN 2 ELSE m9
        m11 == IF Mode = "cross" THEN 0 ELSE m10
        m12 == IF Mode = "cross_3d" THEN 0 ELSE m11
        m13 == IF Mode = "gyroid" THEN 1 ELSE m12
    IN  m13

(********************************* execute **********************************)

VARIABLES
    pc,                \* "start", "scan", "done" or "error"
    err,               \* the exception that ended the call ("" for none)
    settings,          \* the script's settings (getSettingValueByKey)
    extruders,         \* infill_pattern of each extruder of the machine
    extruder_id, infillpattern, infill_type,
    currentSection, lastPosition, perimeterSegments, new_Line,
    unbound,           \* the local names no assignment has bound yet
    lines,             \* the list "lines" of the layer being scanned
    data,              \* the list "data", up to the layer being scanned
    input,             \* data as it was passed in, up to the line scanned
    header, budget,    \* what is left of the stream: forced and free events
    trace,             \* one entry per line scanned
    call               \* a call of a kernel function made on its own

vars == <<pc, err, settings, extruders, extruder_id, infillpattern, infill_type,
          currentSection, lastPosition, perimeterSegments, new_Line, unbound,
          lines, data, input, header, budget, trace, call>>

\* No kernel function is called on its own during a call of execute().
NoCall == [name |-> "none", args |-> <<>>, returned |-> FALSE, result |-> <<>>]

\* lastPosition before the first move (line 352).
Sentinel == Point2D(Num(-10000), Num(-10000))

\* The values execute() computes once from the settings (lines 328-331, 353).
Config(s, type) ==
    [gradient_discretization |-> Num(s.gradientdiscretization),
     max_flow |-> Num(s.maxflow),
     min_flow |-> Num(s.minflow),
     gradient_thickness |-> Num(s.gradientthickness),
     gradientDiscretizationLength |->
         RDiv(Num(s.gradientthickness), Num(s.gradientdiscretization)),
     infill_type |-> type]

\* The loop's local variables, and what the pass over one line adds to them:
\* the exception raised, the text stored in lines[line_index], the branch taken.
Locals ==
    [currentSection |-> currentSection, lastPosition |-> lastPosition,
     perimeterSegments |-> perimeterSegments, new_Line |-> new_Line,
     unbound |-> unbound, err |-> "", stored |-> <<>>, branch |-> "none"]

\* A wall step whose layer marker binds perimeterSegments once and never
\* empties it afterwards: what C6's statement is tested against.
WallStepKeeping(loc, currentLine) ==
    LET s2 == IF is_begin_inner_wall_line(currentLine)
              THEN [loc EXCEPT !.currentSection = "INNER_WALL",
                               !.unbound = IF is_begin_layer_line(currentLine)
                                           THEN @ \ {"perimeterSegments"} ELSE @]
              ELSE [loc EXCEPT !.unbound = IF is_begin_layer_line(currentLine)
                                           THEN @ \ {"perimeterSegments"} ELSE @]
        s3 == IF s2.currentSection = "INNER_WALL" /\ is_extrusion_line(currentLine)
              THEN IF "perimeterSegments" \in s2.unbound
                   THEN [s2 EXCEPT !.err = "UnboundLocalError"]
                   ELSE [s2 EXCEPT !.perimeterSegments =
                             Append(@, Segment(getXY(currentLine), s2.lastPosition))]
              ELSE s2
    IN  IF s3.err = "" /\ is_end_inner_wall_line(currentLine)
        THEN [s3 EXCEPT !.currentSection = "NOTHING"]
        ELSE s3

\* Lines 366-375: the layer marker, the wall markers, the wall segments.
WallStep(loc, currentLine) ==
    LET s1 == IF is_begin_layer_line(currentLine)
              THEN [loc EXCEPT !.perimeterSegments = <<>>,
                               !.unbound = @ \ {"perimeterSegments"}]
              ELSE loc
        s2 == IF is_begin_inner_wall_line(currentLine)
              THEN [s1 EXCEPT !.currentSection = "INNER_WALL"]
              ELSE s1
        s3 == IF s2.currentSection = "INNER_WALL" /\ is_extrusion_line(currentLine)
              THEN IF "perimeterSegments" \in s2.unbound
                   THEN [s2 EXCEPT !.err = "UnboundLocalError"]
                   ELSE [s2 EXCEPT !.perimeterSegments =
                             Append(@, Segment(getXY(currentLine), s2.lastPosition))]
              ELSE s2
    IN  IF s3.err = "" /\ is_end_inner_wall_line(currentLine)
        THEN [s3 EXCEPT !.currentSection = "NOTHING"]
        ELSE s3

\* A speed step that also stores the command "G1 F<value>" in the place of
\* the line: what C8's statement is tested against.
SpeedStepReplacing(loc, currentLine) ==
    IF HasF(currentLine) /\ HasG1(currentLine)
    THEN [loc EXCEPT !.new_Line =
                         Cat(Txt(Cmd("G1", currentLine.F, <<>>, <<>>, <<>>)), NewLine),
                     !.unbound = @ \ {"new_Line"},
                     !.stored = Txt(Cmd("G1", currentLine.F, <<>>, <<>>, <<>>)),
                     !.branch = "speed"]
    ELSE loc

\* Lines 383-389: a G1 line with an F sets the pending text to "G1 F<value>\n".
SpeedStep(loc, currentLine) ==
    IF HasF(currentLine) /\ HasG1(currentLine)
    THEN [loc EXCEPT !.new_Line =
                         Cat(Txt(Cmd("G1", currentLine.F, <<>>, <<>>, <<>>)), NewLine),
                     !.unbound = @ \ {"new_Line"},
                     !.branch = "speed"]
    ELSE loc

\* A flow that is the minimum one at every distance: what the statement of
\* C13 is tested against.
SegmentFlowMinimum(cfg, shortestDistance) == RDiv(cfg.min_flow, Num(100))

\* A flow that follows the gradient beyond gradient_thickness, below the
\* minimum one: what the statement of C18 is tested against.
SegmentFlowUnclamped(cfg, shortestDistance) ==
    mapRange(<<Num(0), cfg.gradient_thickness>>,
             <<RDiv(cfg.max_flow, Num(100)), RDiv(cfg.min_flow, Num(100))>>,
             shortestDistance)

\* Lines 412-415: the share of the nominal extrusion a sub-segment at
\* shortestDistance from the walls is given.
SegmentFlow(cfg, shortestDistance) ==
    IF RLt(shortestDistance, cfg.gradient_thickness)
    THEN mapRange(<<Num(0), cfg.gradient_thickness>>,
                  <<RDiv(cfg.max_flow, Num(100)), RDiv(cfg.min_flow, Num(100))>>,
                  shortestDistance)
    ELSE RDiv(cfg.min_flow, Num(100))

\* Lines 411-418: one pass of the loop, from the distance of its sub-segment.
SubdivideStep(cfg, loc, segmentEnd, shortestDistance, extrusionLengthPerSegment) ==
    IF "perimeterSegments" \in loc.unbound
    THEN [loc EXCEPT !.err = "UnboundLocalError"]
    ELSE IF shortestDistance.err # ""
    THEN [loc EXCEPT !.err = shortestDistance.err]
    ELSE IF "new_Line" \in loc.unbound
    THEN [loc EXCEPT !.err = "UnboundLocalError"]
    ELSE [loc EXCEPT
            !.new_Line =
                Cat(Cat(@, Txt(get_extrusion_command(segmentEnd.x, segmentEnd.y,
                        RMul(extrusionLengthPerSegment,
                             SegmentFlow(cfg, shortestDistance.val))))),
                    NewLine),
            !.lastPosition = segmentEnd]

\* Lines 410-418: one pass of the loop, from the end of its sub-segment.
SubdivideTo(cfg, loc, segmentEnd, extrusionLengthPerSegment) ==
    SubdivideStep(cfg, loc, segmentEnd,
        min_distance_from_segment(Segment(loc.lastPosition, segmentEnd),
                                  loc.perimeterSegments),
        extrusionLengthPerSegment)

RECURSIVE SubdivideLoop(_, _, _, _, _, _)
\* Lines 409-418: the passes step..count-1 of the loop over the sub-segments.
SubdivideLoop(cfg, loc, step, count, segmentDirection, extrusionLengthPerSegment) ==
    IF step >= count \/ loc.err # "" THEN loc
    ELSE SubdivideLoop(cfg,
             SubdivideTo(cfg, loc,
                 Point2D(RAdd(loc.lastPosition.x, segmentDirection.x),
                         RAdd(loc.lastPosition.y, segmentDirection.y)),
                 extrusionLengthPerSegment),
             step + 1, count, segmentDirection, extrusionLengthPerSegment)

\* Lines 421-424: the command to the move's target, after the loop.
TailStep(cfg, looped, currentPosition, extrusionLength, segmentLength) ==
    IF looped.err # "" THEN [looped EXCEPT !.branch = "subdivide"]
    ELSE [looped EXCEPT
            !.new_Line = Cat(@, Txt(get_extrusion_command(
                currentPosition.x, currentPosition.y,
                RDiv(RMul(RMul(RDiv(get_points_distance(looped.lastPosition,
                                                        currentPosition),
                                    segmentLength),
                               extrusionLength),
                          cfg.max_flow),
                     Num(100))))),
            !.stored = Cat(looped.new_Line, Txt(get_extrusion_command(
                currentPosition.x, currentPosition.y,
                RDiv(RMul(RMul(RDiv(get_points_distance(looped.lastPosition,
                                                        currentPosition),
                                    segmentLength),
                               extrusionLength),
                          cfg.max_flow),
                     Num(100))))),
            !.branch = "subdivide"]

\* Lines 427-434: the line with its E field scaled by max_flow.
ShortLine(cfg, currentLine, extrusionLength) ==
    Txt([currentLine EXCEPT
            !.E = <<RRound(RDiv(RMul(extrusionLength, cfg.max_flow), Num(100)), 100000)>>])

\* Lines 404-434: the LINEAR rewriting, from the move's number of steps.
LinearSteps(cfg, loc, currentLine, currentPosition, extrusionLength, segmentLength, segmentSteps) ==
    IF RIsZero(segmentSteps)
    THEN [loc EXCEPT !.err = "ZeroDivisionError", !.branch = "linear"]
    ELSE IF RGe(segmentSteps, Num(2))
    THEN TailStep(cfg,
             SubdivideLoop(cfg, loc, 0, RFloor(segmentSteps),
                 Point2D(RMul(RDiv(RSub(currentPosition.x, loc.lastPosition.x),
                                   segmentLength),
                              cfg.gradientDiscretizationLength),
                         RMul(RDiv(RSub(currentPosition.y, loc.lastPosition.y),
                                   segmentLength),
                              cfg.gradientDiscretizationLength)),
                 RDiv(extrusionLength, segmentSteps)),
             currentPosition, extrusionLength, segmentLength)
    ELSE [loc EXCEPT !.stored = ShortLine(cfg, currentLine, extrusionLength),
                     !.branch = "short"]

\* Lines 402-434: the LINEAR rewriting, from the move's length.
LinearLength(cfg, loc, currentLine, currentPosition, segmentLength) ==
    LinearSteps(cfg, loc, currentLine, currentPosition, currentLine.E[1],
                segmentLength,
                RDiv(segmentLength, cfg.gradientDiscretizationLength))

\* Lines 396-434: the LINEAR rewriting of an infill extrusion move.
LinearRewrite(cfg, loc, currentLine, currentPosition) ==
    LinearLength(cfg, loc, currentLine, currentPosition,
                 get_points_distance(loc.lastPosition, currentPosition))

\* Lines 443-453: the SMALL_SEGMENTS rewriting, from the move's distance.
SmallSegmentsStep(cfg, loc, currentLine, shortestDistance) ==
    IF "perimeterSegments" \in loc.unbound
    THEN [loc EXCEPT !.err = "UnboundLocalError", !.branch = "small"]
    ELSE IF shortestDistance.err # ""
    THEN [loc EXCEPT !.err = shortestDistance.err, !.branch = "small"]
    ELSE IF "new_Line" \in loc.unbound
    THEN [loc EXCEPT !.err = "UnboundLocalError", !.branch = "small"]
    ELSE IF RLt(shortestDistance.val, cfg.gradient_thickness)
    THEN [loc EXCEPT
            !.stored =
                Cat(Cat(loc.new_Line,
                        Txt([currentLine EXCEPT !.E =
                            <<RRound(RMul(currentLine.E[1],
                                          SegmentFlow(cfg, shortestDistance.val)),
                                     100000)>>])),
                    NewLine),
            !.branch = "small"]
    ELSE [loc EXCEPT !.branch = "small"]

\* Lines 440-453: the SMALL_SEGMENTS rewriting of an infill extrusion move.
SmallSegmentsRewrite(cfg, loc, currentLine, currentPosition) ==
    SmallSegmentsStep(cfg, loc, currentLine,
        min_distance_from_segment(Segment(loc.lastPosition, currentPosition),
                                  loc.perimeterSegments))

\* Lines 391-453: the rewriting of a full extrusion move, by topology.
RewriteStep(cfg, loc, currentLine) ==
    IF HasE(currentLine) /\ HasG1(currentLine)
       /\ HasSpaceX(currentLine) /\ HasY(currentLine)
    THEN IF cfg.infill_type = 2
         THEN LinearRewrite(cfg, loc, currentLine, getXY(currentLine))
         ELSE IF cfg.infill_type = 1
         THEN SmallSegmentsRewrite(cfg, loc, currentLine, getXY(currentLine))
         ELSE [loc EXCEPT !.branch = "untouched"]
    ELSE loc

\* A comment step that leaves the section as it is: what C14's statement
\* is tested against.
CommentStepKeeping(loc, currentLine) == loc

\* Lines 456-457: a line with a ";" ends the infill section.
CommentStep(loc, currentLine) ==
    IF loc.err = "" /\ HasSemicolon(currentLine)
    THEN [loc EXCEPT !.currentSection = "NOTHING"]
    ELSE loc

\* Lines 382-457: the pass over a line while the section is INFILL.
InfillStep(cfg, loc, currentLine) ==
    CommentStep(RewriteStep(cfg, SpeedStep(loc, currentLine), currentLine),
                currentLine)

\* A move step that leaves the position where the rewriting left it: what
\* C16's statement is tested against.
MoveStepSkipping(loc, currentLine) == loc

\* Lines 460-461: a move with X and Y sets the position.
MoveStep(loc, currentLine) ==
    IF loc.err = "" /\ HasSpaceX(currentLine) /\ HasSpaceY(currentLine)
       /\ (HasG1(currentLine) \/ HasG0(currentLine))
    THEN [loc EXCEPT !.lastPosition = getXY(currentLine)]
    ELSE loc

\* Lines 377-461: the pass over a line after the wall markers.
SectionStep(cfg, walled, currentLine) ==
    IF walled.err # "" THEN walled
    ELSE IF is_begin_infill_segment_line(currentLine)
    THEN [walled EXCEPT !.currentSection = "INFILL"]
    ELSE IF walled.currentSection = "INFILL"
    THEN MoveStep(InfillStep(cfg, walled, currentLine), currentLine)
    ELSE MoveStep(walled, currentLine)

\* Lines 366-461: the pass of the inner loop over one line.
LinePass(cfg, loc, currentLine) ==
    SectionStep(cfg, WallStep(loc, currentLine), currentLine)

(***************************** the streams read ****************************)

\* Bounds of the model: the free events (lines and layer ends) that follow a
\* stream's opening, the layers of a stream, the extruders of the machine.
MaxBody == 3
MaxLayers == 3
MaxExtruders == 3

\* The corners of a right triangle with sides 12, 16 and 20 mm.
PA == Point2D(Num(0), Num(0))
PB == Point2D(Num(12), Num(0))
PC == Point2D(Num(12), Num(16))

G0(p) == Cmd("G0", <<>>, <<p.x>>, <<p.y>>, <<>>)
G1E(p) == Cmd("G1", <<>>, <<p.x>>, <<p.y>>, <<Num(1)>>)
G1FE(p) == Cmd("G1", <<Num(1800)>>, <<p.x>>, <<p.y>>, <<Num(1)>>)
G1FXY(p) == Cmd("G1", <<Num(1800)>>, <<p.x>>, <<p.y>>, <<>>)
G1F == Cmd("G1", <<Num(1800)>>, <<>>, <<>>, <<>>)
LayerLine == Marker(";LAYER:0")
InnerWallLine == Marker(";TYPE:WALL-INNER")
OuterWallLine == Marker(";TYPE:WALL-OUTER")
FillLine == Marker(";TYPE:FILL")
SkinLine == Marker(";TYPE:SKIN")
OtherLine == Marker("M107")
\* Not a line: the end of a layer (of an element of data).
EndOfLayer == Marker("<end of layer>")

\* The lines a stream is free to hold after its opening.
Alphabet ==
    {LayerLine, InnerWallLine, OuterWallLine, FillLine, SkinLine, OtherLine,
     G1F, G1FXY(PA), G0(PA), G0(PC), G1E(PA), G1E(PB), G1E(PC), G1FE(PC)}

\* The openings: none; a layer with the wall A-B; the same up to the first
\* speed line of its infill; a layer with no wall; a whole layer that ends
\* by opening the infill; a layer with a skin move between two infills.
Headers ==
    {<<>>,
     <<LayerLine, InnerWallLine, G0(PA), G1E(PB)>>,
     <<LayerLine, InnerWallLine, G0(PA), G1E(PB), FillLine, G1F>>,
     <<LayerLine, G0(PA), FillLine>>,
     <<G1E(PB), G0(PA), FillLine, EndOfLayer>>,
     <<LayerLine, G0(PA), FillLine, SkinLine, G1E(PB), FillLine, G0(PA)>>}

Patterns ==
    {"grid", "lines", "triangles", "trihexagon", "cubic", "cubicsubdiv",
     "tetrahedral", "quarter_cubic", "concentric", "zigzag", "cross", "cross_3d",
     "gyroid"}

Settings(thickness, nb) ==
    [gradientthickness |-> thickness, gradientdiscretization |-> 2,
     maxflow |-> 350, minflow |-> 50, extruder_nb |-> nb]

\* The calls whose stream is explored: one extruder, a pattern of each
\* topology, a gradient of 8 and of 16 mm (steps of 4 and of 8 mm).
ScanProfiles ==
    {[settings |-> Settings(t, 1), extruders |-> <<p>>, header |-> h, budget |-> MaxBody] :
        t \in {8, 16}, p \in {"lines", "gyroid", "concentric"}, h \in Headers}

\* The calls whose settings are explored: every pattern, every extruder
\* count and selector, on a stream of one short layer.
SettingProfiles ==
    {[settings |-> Settings(16, nb), extruders |-> [i \in 1..n |-> p],
      header |-> <<G0(PA), FillLine, G1E(PB)>>, budget |-> 0] :
        nb \in (0 - MaxExtruders)..(MaxExtruders + 1), n \in 1..MaxExtruders, p \in Patterns}

Init ==
    \E p \in ScanProfiles \cup SettingProfiles :
        /\ pc = "start"
        /\ err = ""
        /\ settings = p.settings
        /\ extruders = p.extruders
        /\ extruder_id = 0
        /\ infillpattern = ""
        /\ infill_type = 0
        /\ currentSection = "NOTHING"
        /\ lastPosition = Sentinel
        /\ perimeterSegments = <<>>
        /\ new_Line = EmptyStr
        /\ unbound = {"perimeterSegments", "new_Line"}
        /\ lines = <<>>
        /\ data = <<>>
        /\ input = <<>>
        /\ header = p.header
        /\ budget = p.budget
        /\ trace = <<>>
        /\ call = NoCall

(********************************* actions *********************************)

\* The extruder whose properties are read (lines 332-339).
SelectExtruder(nb, count) ==
    LET id == nb - 1
        last == count - 1
    IN  IF id > last THEN last ELSE id

\* Lines 328-358: the settings, the extruder and its infill pattern.
Configure ==
    /\ pc = "start"
    /\ LET id == SelectExtruder(settings.extruder_nb, Len(extruders))
           inRange == id >= 0 - Len(extruders) /\ id < Len(extruders)
           pattern == extruders[IF id < 0 THEN id + Len(extruders) + 1 ELSE id + 1]
       IN  /\ extruder_id' = id
           /\ pc' = IF inRange THEN "scan" ELSE "error"
           /\ err' = IF inRange THEN "" ELSE "IndexError"
           /\ infillpattern' = IF inRange THEN pattern ELSE infillpattern
           /\ infill_type' = IF inRange THEN mfill_mode(pattern) ELSE infill_type
    /\ currentSection' = "NOTHING"
    /\ lastPosition' = Sentinel
    /\ UNCHANGED <<settings, extruders, perimeterSegments, new_Line, unbound,
                   lines, data, input, header, budget, trace, call>>

\* The lines the stream may hold next.
NextLines ==
    IF header # <<>>
    THEN IF header[1] = EndOfLayer THEN {} ELSE {header[1]}
    ELSE IF budget > 0 THEN Alphabet ELSE {}

\* A stream sets the position by a move before its first extrusion in a wall
\* or an infill section: the distances from the sentinel are not computed.
Positioned(currentLine) ==
    ~ (/\ is_extrusion_line(currentLine)
       /\ lastPosition = Sentinel
       /\ currentSection # "NOTHING")

\* Lines 364 and 424, 434, 453: what the pass over currentLine leaves in
\* the loop's variables and in lines, the stored text going to line_index.
Store(loc, currentLine, listed, line_index) ==
    /\ currentSection' = loc.currentSection
    /\ lastPosition' = loc.lastPosition
    /\ perimeterSegments' = loc.perimeterSegments
    /\ new_Line' = loc.new_Line
    /\ unbound' = loc.unbound
    /\ lines' = IF loc.stored # <<>>
                THEN [listed EXCEPT ![line_index] = loc.stored]
                ELSE listed
    /\ pc' = IF loc.err = "" THEN "scan" ELSE "error"
    /\ err' = loc.err
    /\ trace' = Append(trace,
           [line |-> currentLine, layer |-> Len(data) + 1, at |-> Len(lines) + 1,
            section |-> currentSection, position |-> lastPosition,
            unbound |-> unbound, perimeter |-> loc.perimeterSegments,
            branch |-> loc.branch, stored |-> loc.stored, err |-> loc.err])

\* Lines 363-461: the pass of the inner loop over the next line of the layer.
ScanLine ==
    /\ pc = "scan"
    /\ \E currentLine \in NextLines :
        /\ Positioned(currentLine)
        /\ Store(LinePass(Config(settings, infill_type), Locals, currentLine),
                 currentLine, Append(lines, Txt(currentLine)),
                 Index(Append(lines, Txt(currentLine)), Txt(currentLine)))
        /\ input' = IF lines = <<>> THEN Append(input, <<currentLine>>)
                    ELSE [input EXCEPT ![Len(input)] = Append(@, currentLine)]
    /\ header' = IF header # <<>> THEN Tail(header) ELSE header
    /\ budget' = IF header # <<>> THEN budget ELSE budget - 1
    /\ UNCHANGED <<settings, extruders, extruder_id, infillpattern, infill_type, data,
                   call>>

\* The text of a layer as it was passed in.
LayerText(layer) == Join([i \in 1..Len(layer) |-> Txt(layer[i])])

\* Lines 361 and 468-470: the layer scanned is joined and stored in data;
\* the outer loop goes on to the next layer, or the call returns.
EndLayer ==
    /\ pc = "scan"
    /\ lines # <<>>
    /\ LET layer == LayerText(input[Len(input)])
           listed == Append(data, layer)
           layer_index == Index(listed, layer)
           final_lines == Join(lines)
       IN  data' = [listed EXCEPT ![layer_index] = final_lines]
    /\ lines' = <<>>
    /\ \/ /\ header # <<>> /\ header[1] = EndOfLayer
          /\ header' = Tail(header)
          /\ UNCHANGED <<budget, pc>>
       \/ /\ header = <<>> /\ budget > 0 /\ Len(data) + 1 < MaxLayers
          /\ budget' = budget - 1
          /\ UNCHANGED <<header, pc>>
       \/ /\ header = <<>>
          /\ pc' = "done"
          /\ UNCHANGED <<header, budget>>
    /\ UNCHANGED <<err, settings, extruders, extruder_id, infillpattern, infill_type,
                   currentSection, lastPosition, perimeterSegments, new_Line, unbound,
                   input, trace, call>>

Next == Configure \/ ScanLine \/ EndLayer

Spec == Init /\ [][Next]_vars

(*************************** the kernel on its own *************************)

\* Bounds of the calls made: the coordinates 0..MaxGrid of the points, the
\* gradient thicknesses 1..MaxThickness, the flows 0, 1/2, .. MaxFlowHalves/2.
MaxGrid == 2
MaxThickness == 3
MaxFlowHalves == 4

Grid == {Point2D(Num(x), Num(y)) : x \in 0..MaxGrid, y \in 0..MaxGrid}

\* The distances 0, 1/2, .. T.
Samples(T) == {Rat(j, 2) : j \in 0..(2 * T)}

\* mapRange((0, T), (Fmax, Fmin), s) as lines 413 and 447 call it, Fmax >= Fmin.
MapRangeCalls ==
    {[name |-> "mapRange", returned |-> FALSE, result |-> <<>>,
      args |-> << <<Num(0), Num(T)>>, <<Rat(hi, 2), Rat(lo, 2)>>, Rat(j, 2) >>] :
        T \in 1..MaxThickness, hi \in 0..MaxFlowHalves, lo \in 0..MaxFlowHalves,
        j \in 0..(2 * MaxThickness)}

\* dist(segment, point) on the points of the grid.
DistCalls ==
    {[name |-> "dist", returned |-> FALSE, result |-> <<>>,
      args |-> <<Segment(p1, p2), p>>] : p1 \in Grid, p2 \in Grid, p \in Grid}

KernelInit ==
    /\ call \in {c \in MapRangeCalls :
                    /\ RGe(c.args[2][1], c.args[2][2])
                    /\ c.args[3] \in Samples(c.args[1][2].n)}
               \cup DistCalls
    /\ pc = "kernel"
    /\ err = ""
    /\ settings = Settings(8, 1)
    /\ extruders = <<"lines">>
    /\ extruder_id = 0
    /\ infillpattern = ""
    /\ infill_type = 0
    /\ currentSection = "NOTHING"
    /\ lastPosition = Sentinel
    /\ perimeterSegments = <<>>
    /\ new_Line = EmptyStr
    /\ unbound = {"perimeterSegments", "new_Line"}
    /\ lines = <<>>
    /\ data = <<>>
    /\ input = <<>>
    /\ header = <<>>
    /\ budget = 0
    /\ trace = <<>>

KernelIdle ==
    UNCHANGED <<pc, err, settings, extruders, extruder_id, infillpattern, infill_type,
                currentSection, lastPosition, perimeterSegments, new_Line, unbound,
                lines, data, input, header, budget, trace>>

\* Lines 129-146: the call of mapRange returns.
CallMapRange ==
    /\ pc = "kernel" /\ call.name = "mapRange" /\ ~call.returned
    /\ call' = [call EXCEPT !.returned = TRUE,
                            !.result = mapRange(call.args[1], call.args[2], call.args[3])]
    /\ KernelIdle

\* Lines 52-75: the call of dist returns, or raises.
CallDist ==
    /\ pc = "kernel" /\ call.name = "dist" /\ ~call.returned
    /\ call' = [call EXCEPT !.returned = TRUE,
                            !.result = dist(call.args[1], call.args[2])]
    /\ KernelIdle

KernelNext == CallMapRange \/ CallDist

KernelSpec == KernelInit /\ [][KernelNext]_vars

(******************************** properties *******************************)

\* The entries of trace for the layer k of the stream, in the order scanned.
LayerTrace(k) == SelectSeq(trace, LAMBDA e : e.layer = k)

\* The text rewriting by position leaves where the line of an entry stood,
\* and the list of these texts for the layer k.
TextAt(e) == IF e.stored # <<>> THEN e.stored ELSE Txt(e.line)
Rewritten(k) == [i \in 1..Len(LayerTrace(k)) |-> TextAt(LayerTrace(k)[i])]

\* The entry of a full extrusion move scanned in the infill section.
InfillMove(e) == e.section = "INFILL" /\ is_extrusion_line(e.line)

RECURSIVE Commands(_)
\* The commands of a text in the order written, and its extrusion commands.
Commands(str) == IF str = <<>> THEN <<>> ELSE str[1] \o Commands(Tail(str))
Extrusions(str) == SelectSeq(Commands(str), LAMBDA c : c.E # <<>>)

\* The length of the move of an entry, the length of a gradient step, the
\* number of steps of the move and the end of its k-th step.
MoveLength(e) == get_points_distance(e.position, getXY(e.line))
StepLength == RDiv(Num(settings.gradientthickness), Num(settings.gradientdiscretization))
MoveSteps(e) == RDiv(MoveLength(e), StepLength)
StepEnd(e, k) ==
    Point2D(RAdd(e.position.x,
                 RDiv(RMul(RMul(Num(k), StepLength),
                           RSub(getXY(e.line).x, e.position.x)), MoveLength(e))),
            RAdd(e.position.y,
                 RDiv(RMul(RMul(Num(k), StepLength),
                           RSub(getXY(e.line).y, e.position.y)), MoveLength(e))))

\* The line of an entry with its extrusion multiplied by flow.
Scaled(e, flow) == Txt([e.line EXCEPT !.E = <<RMul(e.line.E[1], flow)>>])

\* C1 (as claimed): rewriting is positional.  Only full extrusion moves of
\* the infill section are rewritten; the list of the layer being scanned
\* holds, at the position of every line scanned, the rewritten text of that
\* line or else its input text; every layer scanned holds, at its own
\* position of the stream, the texts of its own lines joined.
C1_PositionalRewriting ==
    /\ \A i \in 1..Len(trace) : trace[i].stored # <<>> => InfillMove(trace[i])
    /\ lines # <<>> => lines = Rewritten(Len(data) + 1)
    /\ \A k \in 1..Len(data) : data[k] = Join(Rewritten(k))

\* C2 (as claimed): under LINEAR, the text that replaces a move of two or
\* more steps holds exactly floor(steps) + 1 extrusion commands: one to the
\* end of each step in order, then one to the target of the move; none is of
\* an earlier move.
C2_SubdivisionStructure ==
    \A i \in 1..Len(trace) :
        (/\ infill_type = 2
         /\ InfillMove(trace[i])
         /\ trace[i].err = ""
         /\ RGe(MoveSteps(trace[i]), Num(2)))
        => LET cmds == Extrusions(trace[i].stored)
               n == RFloor(MoveSteps(trace[i]))
           IN  /\ Len(cmds) = n + 1
               /\ \A k \in 1..n :
                     /\ cmds[k].X = <<RRound(StepEnd(trace[i], k).x, 1000)>>
                     /\ cmds[k].Y = <<RRound(StepEnd(trace[i], k).y, 1000)>>
               /\ cmds[n + 1].X = trace[i].line.X
               /\ cmds[n + 1].Y = trace[i].line.Y

\* C3 (as claimed): under LINEAR, a move of less than two steps, a move of
\* length zero included, raises no error and is replaced by the one command
\* with the same fields and E = E * max_flow / 100.
C3_ShortMove ==
    \A i \in 1..Len(trace) :
        (/\ infill_type = 2
         /\ InfillMove(trace[i])
         /\ RLt(MoveSteps(trace[i]), Num(2)))
        => /\ trace[i].err = ""
           /\ trace[i].stored =
                  Scaled(trace[i], RDiv(Num(settings.maxflow), Num(100)))

\* The distance from the middle of the move of an entry to the perimeter.
MoveDistance(e) ==
    min_distance_from_segment(Segment(e.position, getXY(e.line)), e.perimeter).val

\* C4 (as claimed): under SMALL_SEGMENTS, a move at a distance d of the
\* perimeter is left as it is when d >= gradient_thickness and is replaced
\* by the one command with E = E * mapRange(...)(d), and nothing else, when
\* d < gradient_thickness.
C4_SmallSegments ==
    \A i \in 1..Len(trace) :
        (/\ infill_type = 1
         /\ InfillMove(trace[i])
         /\ trace[i].err = "")
        => IF RLt(MoveDistance(trace[i]), Num(settings.gradientthickness))
           THEN trace[i].stored =
                    Scaled(trace[i],
                           mapRange(<<Num(0), Num(settings.gradientthickness)>>,
                                    <<RDiv(Num(settings.maxflow), Num(100)),
                                      RDiv(Num(settings.minflow), Num(100))>>,
                                    MoveDistance(trace[i])))
           ELSE trace[i].stored = <<>>

\* The entries of the infill moves rewritten while the perimeter was empty
\* (moves of some length: the move of length zero is the case of C3).
EmptyPerimeterMoves ==
    {i \in 1..Len(trace) :
        /\ infill_type \in {1, 2}
        /\ InfillMove(trace[i])
        /\ trace[i].position # getXY(trace[i].line)
        /\ "perimeterSegments" \notin trace[i].unbound
        /\ trace[i].perimeter = <<>>}

\* C5 (as claimed): an infill move processed while the perimeter holds no
\* segment raises no error, and all such moves are treated alike: all are
\* left as they are, or all are given the minimum flow.
C5_EmptyPerimeterPolicy ==
    /\ \A i \in EmptyPerimeterMoves : trace[i].err = ""
    /\ \/ \A i \in EmptyPerimeterMoves : trace[i].stored = <<>>
       \/ \A i \in EmptyPerimeterMoves :
              trace[i].stored =
                  Scaled(trace[i], RDiv(Num(settings.minflow), Num(100)))

\* The position of the last layer marker scanned (0 when there is none), and
\* the segments of the extrusion lines scanned in the inner wall after it.
LastLayerStart ==
    IF \E i \in 1..Len(trace) : is_begin_layer_line(trace[i].line)
    THEN CHOOSE i \in 1..Len(trace) :
             /\ is_begin_layer_line(trace[i].line)
             /\ \A j \in (i + 1)..Len(trace) : ~is_begin_layer_line(trace[j].line)
    ELSE 0
WallSegmentsSince(from) ==
    LET walls == SelectSeq(SubSeq(trace, from + 1, Len(trace)),
                     LAMBDA e : e.section = "INNER_WALL" /\ is_extrusion_line(e.line))
    IN  [i \in 1..Len(walls) |-> Segment(getXY(walls[i].line), walls[i].position)]

\* C6: once a layer marker has been scanned, the perimeter set is the
\* sequence of Segment(target, position before the line) of the extrusion
\* lines scanned in the inner wall since the last layer marker; it is empty
\* right after a layer marker, and no other line scanned in the sections
\* NOTHING and INFILL changes it.
C6_PerimeterOfLayer ==
    /\ "perimeterSegments" \notin unbound
           => perimeterSegments = WallSegmentsSince(LastLayerStart)
    /\ \A i \in 1..Len(trace) :
           is_begin_layer_line(trace[i].line) => trace[i].perimeter = <<>>
    /\ \A i \in 2..Len(trace) :
           (/\ trace[i].section \in {"NOTHING", "INFILL"}
            /\ ~is_begin_layer_line(trace[i].line))
           => trace[i].perimeter = trace[i - 1].perimeter

\* C6 happens: a second layer marker has emptied a perimeter that held a
\* segment, and a wall segment of the new layer has been recorded since.
C6_SecondLayerWall ==
    /\ perimeterSegments # <<>>
    /\ \E i \in 2..Len(trace) :
           /\ is_begin_layer_line(trace[i].line)
           /\ trace[i - 1].perimeter # <<>>

PassthroughPatterns == {"concentric", "cross", "cross_3d"}
LinearPatterns ==
    {"grid", "lines", "triangles", "trihexagon", "cubic", "cubicsubdiv",
     "tetrahedral", "quarter_cubic", "zigzag"}

\* The branches taken for the infill moves scanned so far.
BranchesTaken == {trace[i].branch : i \in {j \in 1..Len(trace) : InfillMove(trace[j])}}

\* C7: with the pattern concentric, cross or cross_3d the topology is 0,
\* every layer and every line is at all times the one read and the stream
\* returned is the stream passed in; the nine LINEAR patterns give infill
\* moves the LINEAR rewriting only, and gyroid the SMALL_SEGMENTS one only.
C7_PassthroughTopologies ==
    pc \in {"scan", "done"} =>
        /\ infillpattern \in PassthroughPatterns =>
               /\ infill_type = 0
               /\ BranchesTaken \subseteq {"untouched"}
               /\ lines = [i \in 1..Len(lines) |-> Txt(input[Len(input)][i])]
               /\ \A k \in 1..Len(data) : data[k] = LayerText(input[k])
               /\ pc = "done" => Len(data) = Len(input)
        /\ infillpattern \in LinearPatterns =>
               /\ infill_type = 2
               /\ BranchesTaken \subseteq {"linear", "subdivide", "short"}
        /\ infillpattern = "gyroid" =>
               /\ infill_type = 1
               /\ BranchesTaken \subseteq {"small"}

\* C7 happens: a call with a passthrough pattern has returned a stream in
\* which it scanned an infill move.
C7_PassthroughReturned ==
    /\ pc = "done"
    /\ infillpattern \in PassthroughPatterns
    /\ "untouched" \in BranchesTaken

\* The entry of a G1 line with an F that is no full extrusion move, scanned
\* in the infill section, and the command "G1 F<value>" of its speed.
SpeedOnly(e) ==
    e.section = "INFILL" /\ HasG1(e.line) /\ HasF(e.line) /\ ~is_extrusion_line(e.line)
SpeedCommand(e) == Cmd("G1", e.line.F, <<>>, <<>>, <<>>)

\* C8 (amended): a speed-only G1 line of the infill section stays as it is
\* at its position, with all its fields; "G1 F<value>" and a newline become
\* the pending text.
C8_SpeedLineKept ==
    /\ \A i \in 1..Len(trace) :
           (SpeedOnly(trace[i]) /\ trace[i].layer = Len(data) + 1 /\ lines # <<>>)
           => lines[trace[i].at] = Txt(trace[i].line)
    /\ (trace # <<>> /\ SpeedOnly(trace[Len(trace)]))
           => /\ "new_Line" \notin unbound
              /\ new_Line = Cat(Txt(SpeedCommand(trace[Len(trace)])), NewLine)

\* C8 (as claimed): a speed-only G1 line of the infill section is replaced,
\* at its position, by the command "G1 F<value>" alone.
C8_SpeedLineReplaced ==
    \A i \in 1..Len(trace) :
        (SpeedOnly(trace[i]) /\ trace[i].layer = Len(data) + 1 /\ lines # <<>>)
        => lines[trace[i].at] = Txt(SpeedCommand(trace[i]))

\* C8 happens: the line just scanned in the infill section is a speed-only
\* G1 line that carries other fields.
C8_SpeedLineWithTarget ==
    /\ trace # <<>>
    /\ SpeedOnly(trace[Len(trace)])
    /\ HasSpaceX(trace[Len(trace)].line)
    /\ lines # <<>>

Degenerate(s) == s.point1 = s.point2

\* C9 (as claimed): the distance of a point to a wall segment of length zero
\* is its distance to the point of the segment, and no rewriting that
\* measures distances to a perimeter holding such a segment fails by a
\* division by zero.
C9_DegenerateWallGuard ==
    /\ \A j \in 1..Len(perimeterSegments) :
           Degenerate(perimeterSegments[j]) =>
               \A p \in {PA, PB, PC} :
                   dist(perimeterSegments[j], p)
                       = Value(get_points_distance(perimeterSegments[j].point1, p))
    /\ \A i \in 1..Len(trace) :
           (/\ InfillMove(trace[i])
            /\ \E j \in 1..Len(trace[i].perimeter) : Degenerate(trace[i].perimeter[j])
            /\ \/ infill_type = 1
               \/ infill_type = 2 /\ RGe(MoveSteps(trace[i]), Num(2)))
           => trace[i].err # "ZeroDivisionError"

\* C10 (as claimed): the index of the extruder read is one of 0..n-1; it is
\* extruder_nb - 1 when 1 <= extruder_nb <= n and n - 1 when extruder_nb > n.
C10_ExtruderClamp ==
    pc # "start" =>
        /\ extruder_id \in 0..(Len(extruders) - 1)
        /\ (1 <= settings.extruder_nb /\ settings.extruder_nb <= Len(extruders))
               => extruder_id = settings.extruder_nb - 1
        /\ settings.extruder_nb > Len(extruders)
               => extruder_id = Len(extruders) - 1

SquaredLength(p, q) ==
    RAdd(RMul(RSub(q.x, p.x), RSub(q.x, p.x)), RMul(RSub(q.y, p.y), RSub(q.y, p.y)))
Dot(S, P) ==
    RAdd(RMul(RSub(P.x, S.point1.x), RSub(S.point2.x, S.point1.x)),
         RMul(RSub(P.y, S.point1.y), RSub(S.point2.y, S.point1.y)))
Cross(S, P) ==
    RSub(RMul(RSub(S.point2.x, S.point1.x), RSub(P.y, S.point1.y)),
         RMul(RSub(S.point2.y, S.point1.y), RSub(P.x, S.point1.x)))

\* C12: for a segment S of some length and a point P of the grid, dist(S, P)
\* is no error and not negative; its square is the square of the distance of
\* P to S.point1 when the projection parameter is < 0, to S.point2 when it
\* is > 1, to the orthogonal projection of P otherwise; it is the same for S
\* with its end points exchanged.
C12_DistToSegment ==
    (call.name = "dist" /\ call.returned /\ ~Degenerate(call.args[1])) =>
        LET S == call.args[1]
            P == call.args[2]
        IN  /\ call.result = Value(RSqrt(SquaredDist(S, P)))
            /\ RGe(call.result.val, Num(0))
            /\ RGe(SquaredDist(S, P), Num(0))
            /\ RLt(Dot(S, P), Num(0))
                   => SquaredDist(S, P) = SquaredLength(S.point1, P)
            /\ RLt(SquaredNorm(S), Dot(S, P))
                   => SquaredDist(S, P) = SquaredLength(S.point2, P)
            /\ (RGe(Dot(S, P), Num(0)) /\ RGe(SquaredNorm(S), Dot(S, P)))
                   => SquaredDist(S, P)
                          = RDiv(RMul(Cross(S, P), Cross(S, P)), SquaredNorm(S))
            /\ SquaredDist(S, P) = SquaredDist(Segment(S.point2, S.point1), P)

\* C12 happens: a call has returned for a point that projects past the end
\* of the segment and off its line.
C12_ReturnedPastEnd ==
    /\ call.name = "dist" /\ call.returned /\ ~Degenerate(call.args[1])
    /\ RLt(SquaredNorm(call.args[1]), Dot(call.args[1], call.args[2]))
    /\ ~RIsZero(Cross(call.args[1], call.args[2]))

\* The entry of a LINEAR move of two steps or more that was rewritten, and
\* the extrusion commands of the move itself: the last floor(steps) + 1 of
\* the text stored.
Subdivided(e) ==
    infill_type = 2 /\ InfillMove(e) /\ e.err = "" /\ RGe(MoveSteps(e), Num(2))
OwnCommands(e) ==
    SubSeq(Extrusions(e.stored),
           Len(Extrusions(e.stored)) - RFloor(MoveSteps(e)), Len(Extrusions(e.stored)))

\* f(d): the multiplier at the distance d of the perimeter.
FlowAt(d) ==
    IF RLt(d, Num(settings.gradientthickness))
    THEN mapRange(<<Num(0), Num(settings.gradientthickness)>>,
                  <<RDiv(Num(settings.maxflow), Num(100)),
                    RDiv(Num(settings.minflow), Num(100))>>, d)
    ELSE RDiv(Num(settings.minflow), Num(100))

\* d_k: the distance of the middle of the k-th step of a move to the
\* perimeter; the extrusion of a step and of the tail before any scaling.
StepDistance(e, k) ==
    min_distance_from_segment(Segment(StepEnd(e, k - 1), StepEnd(e, k)), e.perimeter).val
StepShare(e) == RDiv(e.line.E[1], MoveSteps(e))
TailShare(e) ==
    RMul(RDiv(get_points_distance(StepEnd(e, RFloor(MoveSteps(e))), getXY(e.line)),
              MoveLength(e)),
         e.line.E[1])

\* C13 (amended): the extrusion written for the k-th step of a subdivided
\* move is (E / steps) * f(d_k) rounded to 5 decimals, d_k being the distance
\* of the middle of that step to the perimeter; the one written for the tail
\* is (rest / length) * E * max_flow / 100 rounded to 5 decimals.
C13_ExtrusionValuesRounded ==
    \A i \in 1..Len(trace) :
        Subdivided(trace[i]) =>
            /\ Len(Extrusions(trace[i].stored)) > RFloor(MoveSteps(trace[i]))
            /\ \A k \in 1..RFloor(MoveSteps(trace[i])) :
                   OwnCommands(trace[i])[k].E =
                       <<RRound(RMul(StepShare(trace[i]),
                                     FlowAt(StepDistance(trace[i], k))), 100000)>>
            /\ OwnCommands(trace[i])[RFloor(MoveSteps(trace[i])) + 1].E =
                   <<RRound(RMul(TailShare(trace[i]),
                                 RDiv(Num(settings.maxflow), Num(100))), 100000)>>

\* C13 (as claimed): the extrusion written for the k-th step of a subdivided
\* move is (E / steps) * f(d_k), and the one written for the tail is
\* (rest / length) * E * max_flow / 100.
C13_ExtrusionValues ==
    \A i \in 1..Len(trace) :
        Subdivided(trace[i]) =>
            /\ Len(Extrusions(trace[i].stored)) > RFloor(MoveSteps(trace[i]))
            /\ \A k \in 1..RFloor(MoveSteps(trace[i])) :
                   OwnCommands(trace[i])[k].E =
                       <<RMul(StepShare(trace[i]), FlowAt(StepDistance(trace[i], k)))>>
            /\ OwnCommands(trace[i])[RFloor(MoveSteps(trace[i])) + 1].E =
                   <<RMul(TailShare(trace[i]), RDiv(Num(settings.maxflow), Num(100)))>>

\* C13 happens: a move of a number of steps that is no integer was
\* subdivided, one of its steps within the gradient and its tail of some
\* length.
C13_SubdividedWithTail ==
    \E i \in 1..Len(trace) :
        /\ Subdivided(trace[i])
        /\ Num(RFloor(MoveSteps(trace[i]))) # MoveSteps(trace[i])
        /\ RLt(StepDistance(trace[i], 1), Num(settings.gradientthickness))

\* The section and the position the scan is left in by the line of the
\* i-th entry (an entry with no error).
SectionAfter(i) == IF i < Len(trace) THEN trace[i + 1].section ELSE currentSection
PositionAfter(i) == IF i < Len(trace) THEN trace[i + 1].position ELSE lastPosition

\* C14 (amended): a layer marker empties the perimeter set; it leaves the
\* section as it was when that is NOTHING or INNER_WALL, and ends the infill
\* section (Section becomes NOTHING) when it is INFILL.
C14_LayerMarkerSection ==
    \A i \in 1..Len(trace) :
        is_begin_layer_line(trace[i].line) =>
            /\ trace[i].err = ""
            /\ trace[i].perimeter = <<>>
            /\ SectionAfter(i) =
                   IF trace[i].section = "INFILL" THEN "NOTHING" ELSE trace[i].section

\* C14 (as claimed): a layer marker empties the perimeter set and leaves the
\* section as it was, be it NOTHING, INNER_WALL or INFILL.
C14_LayerMarkerKeepsSection ==
    \A i \in 1..Len(trace) :
        is_begin_layer_line(trace[i].line) =>
            /\ trace[i].err = ""
            /\ trace[i].perimeter = <<>>
            /\ SectionAfter(i) = trace[i].section

\* C14 happens: layer markers have been scanned in the inner wall, after a
\* segment was recorded, and in the infill section.
C14_MarkersInWallAndInfill ==
    /\ \E i \in 2..Len(trace) :
           /\ is_begin_layer_line(trace[i].line)
           /\ trace[i].section = "INNER_WALL"
           /\ trace[i - 1].perimeter # <<>>
    /\ \E i \in 1..Len(trace) :
           is_begin_layer_line(trace[i].line) /\ trace[i].section = "INFILL"

\* The entry j was scanned after the entry i with no infill marker scanned
\* from i to j.
NoFillBetween(i, j) ==
    i < j /\ \A m \in (i + 1)..j : ~is_begin_infill_segment_line(trace[m].line)

\* The entry of a line with a ";" other than the infill marker, scanned in
\* the infill section.
CommentInInfill(e) ==
    e.section = "INFILL" /\ HasSemicolon(e.line) /\ ~is_begin_infill_segment_line(e.line)

\* The line of the entry stands as it was read in the list of the layer
\* being scanned.
Unmodified(e) ==
    (e.layer = Len(data) + 1 /\ lines # <<>>) => lines[e.at] = Txt(e.line)

\* C15 (as claimed): a line with a ";" other than the infill marker, scanned
\* in the infill section, leaves the section NOTHING; every extrusion move
\* scanned after it and before the next infill marker is left as it was
\* read; an infill marker leaves the section INFILL, whatever it was, and is
\* left as it was read.
C15_InfillEndsAtComment ==
    /\ \A i \in 1..Len(trace) :
           CommentInInfill(trace[i]) =>
               /\ SectionAfter(i) = "NOTHING"
               /\ \A j \in 1..Len(trace) :
                      (NoFillBetween(i, j) /\ is_extrusion_line(trace[j].line))
                          => trace[j].stored = <<>> /\ Unmodified(trace[j])
    /\ \A i \in 1..Len(trace) :
           is_begin_infill_segment_line(trace[i].line) =>
               /\ SectionAfter(i) = "INFILL"
               /\ trace[i].stored = <<>>
               /\ Unmodified(trace[i])

\* A G0 or G1 line with an X and a Y.
IsMove(line) == HasSpaceX(line) /\ HasSpaceY(line) /\ (HasG1(line) \/ HasG0(line))

\* C16: a G0 or G1 line with X and Y that is processed leaves the position
\* at its coordinates, in every section and after every rewriting; any
\* other line leaves the position as it was, the end of a layer too; a wall
\* segment and the rewriting of an infill move start from the position
\* before the line.
C16_PositionTracking ==
    /\ trace # <<>> => trace[1].position = Sentinel
    /\ \A i \in 1..Len(trace) :
           trace[i].err = "" =>
               /\ PositionAfter(i) =
                      IF IsMove(trace[i].line) THEN getXY(trace[i].line)
                      ELSE trace[i].position
               /\ (trace[i].section = "INNER_WALL" /\ is_extrusion_line(trace[i].line))
                      => trace[i].perimeter[Len(trace[i].perimeter)]
                             = Segment(getXY(trace[i].line), trace[i].position)
               /\ Subdivided(trace[i]) =>
                      \A k \in 1..RFloor(MoveSteps(trace[i])) :
                          /\ OwnCommands(trace[i])[k].X
                                 = <<RRound(StepEnd(trace[i], k).x, 1000)>>
                          /\ OwnCommands(trace[i])[k].Y
                                 = <<RRound(StepEnd(trace[i], k).y, 1000)>>
               /\ (infill_type = 1 /\ InfillMove(trace[i]))
                      => (trace[i].stored # <<>>
                             <=> RLt(MoveDistance(trace[i]),
                                     Num(settings.gradientthickness)))

\* C16 happens: a move was subdivided at the end of a layer, and the first
\* line of the next layer was scanned from the target of that move.
C16_CarriedOverAfterSubdivision ==
    \E i \in 1..(Len(trace) - 1) :
        /\ Subdivided(trace[i])
        /\ trace[i + 1].layer > trace[i].layer
        /\ trace[i + 1].position = getXY(trace[i].line)

\* C17: the scan never reads the perimeter set or the pending output
\* prefix new_Line before it was assigned: no line, an inner-wall extrusion
\* before any layer marker and an infill move before any G1 line with F
\* included, ends the scan with an unassigned-variable failure.
C17_NoUnassignedUse ==
    /\ err # "UnboundLocalError"
    /\ \A i \in 1..Len(trace) : trace[i].err # "UnboundLocalError"

\* The least and the greatest extrusion the flow settings allow for a
\* nominal share of the original extrusion.
MinimumOf(share) == RMul(share, RDiv(Num(settings.minflow), Num(100)))
MaximumOf(share) == RMul(share, RDiv(Num(settings.maxflow), Num(100)))

\* The extrusion values of the commands, and the test that each lies
\* between two values (compared over their least common denominator).
Values(commands) == {commands[k].E[1] : k \in 1..Len(commands)}
NoGreater(a, b) == a.n * (b.d \div GCD(a.d, b.d)) <= b.n * (a.d \div GCD(a.d, b.d))
Between(values, low, high) == \A v \in values : NoGreater(low, v) /\ NoGreater(v, high)

\* The entry of an infill move that was rewritten into some text.
RewrittenMove(e) ==
    infill_type \in {1, 2} /\ InfillMove(e) /\ e.err = "" /\ e.stored # <<>>

====
